---- MODULE Spec2Model ----
(***************************************************************************)
(* Model of the pack delta tree of gix-pack                                *)
(* (src/gix-pack/src/cache/delta/tree.rs): the append-only graph built by  *)
(* add_root / add_child and sealed by                                      *)
(* set_pack_entries_end_and_resolve_ref_offsets ("finalize").              *)
(*                                                                         *)
(* Vectors are sequences; the code's 0-based index i is position i + 1.    *)
(* Item.data is a payload of the generic type T that tree.rs stores and    *)
(* never reads; an item is modelled by its other three fields.             *)
(*                                                                         *)
(* The traversal engine that consumes the finalized graph (super::traverse)*)
(* is not part of the sources at hand; TraverseSpec models it as section   *)
(* 4.2 and section 5 of the specification describe it, over graphs built   *)
(* by the operations of tree.rs.                                           *)
(*                                                                         *)
(* Further state machines, each with its own variables: HintSpec (two      *)
(* trees built under two capacity hints), CheckoutSpec (PrepareCheckout of *)
(* git-repository), ExpandSpec (namespace::expand of git-ref), SizeSpec    *)
(* (size of Item<T>), RecorderSpec (Recorder of gix-diff) and NarrowSpec   *)
(* (the builder with child indices of a few bits instead of 32).           *)
(***************************************************************************)
EXTENDS Integers, Sequences, FiniteSets, TLC

\* ------------------------------------------------------------------ bounds
\* Number of distinct pack offsets the callers choose from.
NumOffsets == 4

\* Number of items the callers add to one tree.
MaxItems == 3

\* Number of items of a graph handed to the traversal.
TraverseItems == 3

\* Size of the worker pool of the traversal.
NumWorkers == 2

\* Number of entries of a pack whose delta data is corrupt.
MaxCorrupt == 1

\* Largest capacity hint handed to Tree::with_capacity.
MaxHint == 4

\* Number of items added to the trees built under two capacity hints.
HintItems == 2

\* Number of main_worktree calls made on one PrepareCheckout.
MaxAttempts == 4

\* Longest namespace, in bytes, handed to namespace::expand.
MaxNameLen == 4

\* Longest array of items whose size is followed item by item.
MaxArrayLen == 20

\* Longest path component, longest tracked path (in bytes) and longest queue
\* of paths of a Recorder.
MaxComponentLen == 1

MaxPathLen == 3

MaxDeque == 2

\* Pack offsets handed to the builder: entry starts of a small pack (the
\* first entry of a pack follows its 12 byte header).
OffsetTable == <<12, 40, 90, 120, 150, 180, 210, 240>>

Offsets == {OffsetTable[i] : i \in 1..NumOffsets}

\* pack_entries_end values handed to finalize; 0 is the smallest u64.
Ends == Offsets \cup {0}

\* ------------------------------------------------------------------ state
VARIABLES
    root_items,            \* Tree::root_items
    child_items,           \* Tree::child_items
    last_seen,             \* Tree::last_seen: "None", "Root" or "Child"
    future_child_offsets,  \* Tree::future_child_offsets: <<parent_offset, child_index>>
    call,                  \* the most recent call with its offset argument
    res,                   \* what the most recent call returned
    declared_base,         \* history: base_offset each child was added with
    order,                 \* history: items in the order they were appended
    finalize_ran,          \* history: a finalize call was made
    finalize_failed,       \* history: a finalize call returned OutOfPackRefDelta
    scenario_step,         \* history: position in the scenario call sequence
    corrupt,               \* traversal: items whose entry fails to decode
    queue,                 \* traversal: tasks ready to be taken by a worker
    in_flight,             \* traversal: the task each worker is decoding
    should_interrupt,      \* traversal: the shared cancellation flag
    started,               \* traversal: items in the order their decode started
    sink,                  \* traversal: what was handed to the sink, in order
    errors,                \* traversal: offsets of the failures reported
    result,                \* traversal: the aggregate result returned
    hints,                 \* hints: the two num_objects given to with_capacity
    hinted,                \* hints: the tree built under each hint
    hinted_res,            \* hints: what the most recent call returned on each tree
    capacity,              \* hints: Vec capacity of root_items and child_items of each tree
    prep,                  \* checkout: the PrepareCheckout value, [repo |-> "Some" or "None"]
    prep_alive,            \* checkout: the value was neither consumed nor dropped
    bare,                  \* checkout: the repository has no work directory
    dirs,                  \* checkout: the directories that exist on disk
    handed,                \* checkout: number of Repository values returned to the caller
    co_call,               \* checkout: the most recent call
    co_res,                \* checkout: what the most recent call returned
    attempts,              \* checkout: number of main_worktree calls made
    removals,              \* checkout history: directories remove_dir_all was called on
    checked_out,           \* checkout history: a main_worktree call returned Ok
    namespace,             \* expand: the name handed to namespace::expand
    expanded,              \* expand: what namespace::expand returned
    target,                \* size: pointer size and u64 alignment of the build target
    data_type,             \* size: the type T of Item<T>
    array_len,             \* size: number of items of the array
    array_bytes,           \* size: bytes the array occupies
    location,              \* recorder: Recorder::location, "None", "Path" or "FileName"
    path,                  \* recorder: Recorder::path
    path_deque,            \* recorder: Recorder::path_deque
    rec_call,              \* recorder: name of the most recent call
    rec_res,               \* recorder: what the most recent call came to
    prev_call,             \* recorder history: name of the call before it
    index_bits,            \* narrow: width in bits of a stored child index
    narrow,                \* narrow: the Tree whose child indices have that width
    narrow_call,           \* narrow: name of the most recent call
    narrow_res             \* narrow: what the most recent call returned

tree_vars == <<root_items, child_items, last_seen, future_child_offsets>>

build_vars == <<root_items, child_items, last_seen, future_child_offsets, call, res,
                declared_base, order, finalize_ran, finalize_failed, scenario_step>>

trav_vars == <<corrupt, queue, in_flight, should_interrupt, started, sink, errors,
               result>>

hint_vars == <<hints, hinted, hinted_res, capacity>>

\* The variables of the other state machines of this module.
checkout_vars == <<prep, prep_alive, bare, dirs, handed, co_call, co_res,
                   attempts, removals, checked_out>>

expand_vars == <<namespace, expanded>>

size_vars == <<target, data_type, array_len, array_bytes>>

recorder_vars == <<location, path, path_deque, rec_call, rec_res, prev_call>>

narrow_vars == <<index_bits, narrow, narrow_call, narrow_res>>

aux_vars == <<hint_vars, checkout_vars, expand_vars, size_vars, recorder_vars,
              narrow_vars>>

vars == <<root_items, child_items, last_seen, future_child_offsets, call, res,
          declared_base, order, finalize_ran, finalize_failed, scenario_step,
          corrupt, queue, in_flight, should_interrupt, started, sink, errors,
          result,
          hints, hinted, hinted_res, capacity,
          prep, prep_alive, bare, dirs, handed, co_call, co_res, attempts,
          removals, checked_out,
          namespace, expanded,
          target, data_type, array_len, array_bytes,
          location, path, path_deque, rec_call, rec_res, prev_call,
          index_bits, narrow, narrow_call, narrow_res>>

\* The Tree value held in the variables.
Tree ==
    [root_items |-> root_items,
     child_items |-> child_items,
     last_seen |-> last_seen,
     future_child_offsets |-> future_child_offsets]

\* ------------------------------------------------------------------ values
\* Item { offset, next_offset: 0, data, children: Default::default() }
Item(offset) ==
    [offset |-> offset, next_offset |-> 0, children |-> <<>>]

Ok == [kind |-> "Ok"]

InvariantIncreasingPackOffset(last_pack_offset, pack_offset) ==
    [kind |-> "InvariantIncreasingPackOffset",
     last_pack_offset |-> last_pack_offset,
     pack_offset |-> pack_offset]

OutOfPackRefDelta(base_pack_offset) ==
    [kind |-> "OutOfPackRefDelta", base_pack_offset |-> base_pack_offset]

Panic(msg) == [kind |-> "Panic", msg |-> msg]

\* Half the bit width of u32, as a power of two.
U32Half == 65536

\* `child_index as u32`: the index modulo 2^32.
AsU32(i) ==
    LET hi == (i \div U32Half) \div U32Half
    IN  IF hi = 0 THEN i ELSE i - hi * U32Half * U32Half

\* exact_vec(capacity): an empty Vec with room reserved for `capacity` items.
exact_vec(cap) == [items |-> <<>>, capacity |-> cap]

\* Tree::with_capacity that creates the num_objects / 2 root items up front.
with_capacity_presized(num_objects) ==
    [root_items |-> [k \in 1..(num_objects \div 2) |->
                        [offset |-> 0, next_offset |-> 0, children |-> <<>>]],
     child_items |-> exact_vec(num_objects \div 2).items,
     last_seen |-> "None",
     future_child_offsets |-> <<>>]

\* Tree::with_capacity: exact_vec only reserves, both vectors are empty.
with_capacity(num_objects) ==
    [root_items |-> exact_vec(num_objects \div 2).items,
     child_items |-> exact_vec(num_objects \div 2).items,
     last_seen |-> "None",
     future_child_offsets |-> <<>>]

\* slice::binary_search_by_key(&key, |i| i.offset) over items[lo..hi]
\* (0-based, hi exclusive): Ok(i) or Err.
RECURSIVE BinarySearchFrom(_, _, _, _)
BinarySearchFrom(items, key, lo, hi) ==
    IF lo >= hi
    THEN [found |-> FALSE, i |-> lo]
    ELSE LET mid == lo + ((hi - lo) \div 2)
             k == items[mid + 1].offset
         IN  IF k = key THEN [found |-> TRUE, i |-> mid]
             ELSE IF k < key THEN BinarySearchFrom(items, key, mid + 1, hi)
             ELSE BinarySearchFrom(items, key, lo, mid)

\* binary_search_by_key that leaves the last element out of the search.
binary_search_by_key_skipping_last(items, key) ==
    BinarySearchFrom(items, key, 0, IF Len(items) = 0 THEN 0 ELSE Len(items) - 1)

binary_search_by_key(items, key) == BinarySearchFrom(items, key, 0, Len(items))

\* items[i].children.push(c) landing one item too early.
PushChild_previous_item(items, i, c) ==
    [items EXCEPT ![IF i = 0 THEN 1 ELSE i].children = Append(@, c)]

\* items[i].children.push(c)
PushChild(items, i, c) ==
    [items EXCEPT ![i + 1].children = Append(@, c)]

\* ------------------------------------------------------------- operations
\* Each operation maps a Tree to the Tree it leaves and the value it returns.

\* assert_is_incrementing_and_update_next_offset taking the item with
\* first_mut() where the code takes it with last_mut().
assert_is_incrementing_against_first_item(t, offset) ==
    IF t.last_seen = "None" THEN [tree |-> t, res |-> Ok]
    ELSE LET items == IF t.last_seen = "Root" THEN t.root_items ELSE t.child_items
         IN  IF Len(items) = 0
             THEN [tree |-> t, res |-> Panic("last seen won't lie")]
             ELSE LET item == items[1]
                  IN  IF offset <= item.offset
                      THEN [tree |-> t,
                            res |-> InvariantIncreasingPackOffset(item.offset, offset)]
                      ELSE LET closed == [items EXCEPT ![1].next_offset = offset]
                           IN  [tree |-> IF t.last_seen = "Root"
                                         THEN [t EXCEPT !.root_items = closed]
                                         ELSE [t EXCEPT !.child_items = closed],
                                res |-> Ok]

\* assert_is_incrementing_and_update_next_offset comparing with `<` where the
\* code compares with `<=`.
assert_is_incrementing_accepting_equal_offset(t, offset) ==
    IF t.last_seen = "None" THEN [tree |-> t, res |-> Ok]
    ELSE LET items == IF t.last_seen = "Root" THEN t.root_items ELSE t.child_items
         IN  IF Len(items) = 0
             THEN [tree |-> t, res |-> Panic("last seen won't lie")]
             ELSE LET item == items[Len(items)]
                  IN  IF offset < item.offset
                      THEN [tree |-> t,
                            res |-> InvariantIncreasingPackOffset(item.offset, offset)]
                      ELSE LET closed == [items EXCEPT ![Len(items)].next_offset = offset]
                           IN  [tree |-> IF t.last_seen = "Root"
                                         THEN [t EXCEPT !.root_items = closed]
                                         ELSE [t EXCEPT !.child_items = closed],
                                res |-> Ok]

\* Tree::assert_is_incrementing_and_update_next_offset
assert_is_incrementing_and_update_next_offset(t, offset) ==
    IF t.last_seen = "None" THEN [tree |-> t, res |-> Ok]
    ELSE LET items == IF t.last_seen = "Root" THEN t.root_items ELSE t.child_items
         IN  IF Len(items) = 0
             THEN [tree |-> t, res |-> Panic("last seen won't lie")]
             ELSE LET item == items[Len(items)]
                  IN  IF offset <= item.offset
                      THEN [tree |-> t,
                            res |-> InvariantIncreasingPackOffset(item.offset, offset)]
                      ELSE LET closed == [items EXCEPT ![Len(items)].next_offset = offset]
                           IN  [tree |-> IF t.last_seen = "Root"
                                         THEN [t EXCEPT !.root_items = closed]
                                         ELSE [t EXCEPT !.child_items = closed],
                                res |-> Ok]

\* add_root without the call of assert_is_incrementing_and_update_next_offset.
add_root_without_check(t, offset) ==
    [tree |-> [t EXCEPT !.last_seen = "Root",
                        !.root_items = Append(@, Item(offset))],
     res |-> Ok]

\* add_root without `self.last_seen = NodeKind::Root.into()`.
add_root_keeping_last_seen(t, offset) ==
    LET a == assert_is_incrementing_and_update_next_offset(t, offset)
    IN  IF a.res.kind # "Ok" THEN a
        ELSE [tree |-> [a.tree EXCEPT !.root_items = Append(@, Item(offset))],
              res |-> Ok]

\* add_root that attaches the pending references waiting for `offset` right
\* away instead of leaving them to finalize.
add_root_backpatching(t, offset) ==
    LET a == assert_is_incrementing_and_update_next_offset(t, offset)
        Awaits(e) == e[1] = offset
        Other(e) == e[1] # offset
    IN  IF a.res.kind # "Ok" THEN a
        ELSE LET u == [a.tree EXCEPT !.last_seen = "Root",
                                     !.root_items = Append(@, Item(offset))]
                 waiting == SelectSeq(u.future_child_offsets, Awaits)
                 pushed == [k \in 1..Len(waiting) |-> AsU32(waiting[k][2])]
             IN  [tree |-> [u EXCEPT
                               !.root_items[Len(u.root_items)].children = pushed,
                               !.future_child_offsets = SelectSeq(@, Other)],
                  res |-> Ok]

\* Tree::add_root
add_root(t, offset) ==
    LET a == assert_is_incrementing_and_update_next_offset(t, offset)
    IN  IF a.res.kind # "Ok" THEN a
        ELSE [tree |-> [a.tree EXCEPT !.last_seen = "Root",
                                      !.root_items = Append(@, Item(offset))],
              res |-> Ok]

\* The base lookup of add_child and of finalize without the search of
\* root_items.
AttachToBase_children_only(t, parent_offset, child_index) ==
    LET c == binary_search_by_key(t.child_items, parent_offset)
    IN  IF c.found
        THEN [found |-> TRUE,
              tree |-> [t EXCEPT !.child_items = PushChild(@, c.i, AsU32(child_index))]]
        ELSE [found |-> FALSE, tree |-> t]

\* The base lookup of add_child and of finalize: children first, then roots;
\* the tree with child_index attached, or found = FALSE.
AttachToBase(t, parent_offset, child_index) ==
    LET c == binary_search_by_key(t.child_items, parent_offset)
        r == binary_search_by_key(t.root_items, parent_offset)
    IN  IF c.found
        THEN [found |-> TRUE,
              tree |-> [t EXCEPT !.child_items = PushChild(@, c.i, AsU32(child_index))]]
        ELSE IF r.found
        THEN [found |-> TRUE,
              tree |-> [t EXCEPT !.root_items = PushChild(@, r.i, AsU32(child_index))]]
        ELSE [found |-> FALSE, tree |-> t]

\* add_child that does not record a base it did not find.
add_child_never_deferring(t, base_offset, offset) ==
    LET a == assert_is_incrementing_and_update_next_offset(t, offset)
    IN  IF a.res.kind # "Ok" THEN a
        ELSE LET next_child_index == Len(a.tree.child_items)
                 b == AttachToBase(a.tree, base_offset, next_child_index)
             IN  [tree |-> [b.tree EXCEPT !.last_seen = "Child",
                                          !.child_items = Append(@, Item(offset))],
                  res |-> Ok]

\* add_child pushing onto future_child_offsets also when the base was found.
add_child_always_deferring(t, base_offset, offset) ==
    LET a == assert_is_incrementing_and_update_next_offset(t, offset)
    IN  IF a.res.kind # "Ok" THEN a
        ELSE LET next_child_index == Len(a.tree.child_items)
                 b == AttachToBase(a.tree, base_offset, next_child_index)
                 linked == [b.tree EXCEPT !.future_child_offsets =
                                     Append(@, <<base_offset, next_child_index>>)]
             IN  [tree |-> [linked EXCEPT !.last_seen = "Child",
                                          !.child_items = Append(@, Item(offset))],
                  res |-> Ok]

\* add_child taking next_child_index as the length child_items has after
\* the push.
add_child_index_after_push(t, base_offset, offset) ==
    LET a == assert_is_incrementing_and_update_next_offset(t, offset)
    IN  IF a.res.kind # "Ok" THEN a
        ELSE LET next_child_index == Len(a.tree.child_items) + 1
                 b == AttachToBase(a.tree, base_offset, next_child_index)
                 linked == IF b.found THEN b.tree
                           ELSE [a.tree EXCEPT !.future_child_offsets =
                                     Append(@, <<base_offset, next_child_index>>)]
             IN  [tree |-> [linked EXCEPT !.last_seen = "Child",
                                          !.child_items = Append(@, Item(offset))],
                  res |-> Ok]

\* add_child without `self.last_seen = NodeKind::Child.into()`.
add_child_keeping_last_seen(t, base_offset, offset) ==
    LET a == assert_is_incrementing_and_update_next_offset(t, offset)
    IN  IF a.res.kind # "Ok" THEN a
        ELSE LET next_child_index == Len(a.tree.child_items)
                 b == AttachToBase(a.tree, base_offset, next_child_index)
                 linked == IF b.found THEN b.tree
                           ELSE [a.tree EXCEPT !.future_child_offsets =
                                     Append(@, <<base_offset, next_child_index>>)]
             IN  [tree |-> [linked EXCEPT !.child_items = Append(@, Item(offset))],
                  res |-> Ok]

\* Tree::add_child
add_child(t, base_offset, offset) ==
    LET a == assert_is_incrementing_and_update_next_offset(t, offset)
    IN  IF a.res.kind # "Ok" THEN a
        ELSE LET next_child_index == Len(a.tree.child_items)
                 b == AttachToBase(a.tree, base_offset, next_child_index)
                 linked == IF b.found THEN b.tree
                           ELSE [a.tree EXCEPT !.future_child_offsets =
                                     Append(@, <<base_offset, next_child_index>>)]
             IN  [tree |-> [linked EXCEPT !.last_seen = "Child",
                                          !.child_items = Append(@, Item(offset))],
                  res |-> Ok]

\* The loop over future_child_offsets.drain(..): `pending` is what the
\* iterator has not yielded yet.  Leaving the loop early drops the iterator,
\* which removes the rest of the drained range, so the vector is empty
\* afterwards either way.
RECURSIVE DrainFutureChildOffsets(_, _)
DrainFutureChildOffsets(t, pending) ==
    IF pending = <<>> THEN [tree |-> t, res |-> Ok]
    ELSE LET parent_offset == Head(pending)[1]
             child_index == Head(pending)[2]
             b == AttachToBase(t, parent_offset, child_index)
         IN  IF b.found
             THEN DrainFutureChildOffsets(b.tree, Tail(pending))
             ELSE [tree |-> t, res |-> OutOfPackRefDelta(parent_offset)]

\* set_pack_entries_end_and_resolve_ref_offsets walking the worklist with
\* iter() where the code drains it: the entries stay in future_child_offsets.
set_pack_entries_end_iterating_without_drain(t, pack_entries_end) ==
    LET d == IF t.future_child_offsets # <<>>
             THEN DrainFutureChildOffsets(t, t.future_child_offsets)
             ELSE [tree |-> t, res |-> Ok]
    IN  IF d.res.kind # "Ok" THEN d
        ELSE LET a == assert_is_incrementing_and_update_next_offset(d.tree, pack_entries_end)
             IN  IF a.res.kind # "Ok"
                 THEN [tree |-> a.tree,
                       res |-> Panic("BUG: pack now is smaller than all previously seen entries")]
                 ELSE a

\* set_pack_entries_end_and_resolve_ref_offsets draining with drain(1..):
\* the first entry stays in future_child_offsets.
set_pack_entries_end_draining_from_second(t, pack_entries_end) ==
    LET d == IF t.future_child_offsets # <<>>
             THEN DrainFutureChildOffsets(
                      [t EXCEPT !.future_child_offsets = <<Head(t.future_child_offsets)>>],
                      Tail(t.future_child_offsets))
             ELSE [tree |-> t, res |-> Ok]
    IN  IF d.res.kind # "Ok" THEN d
        ELSE LET a == assert_is_incrementing_and_update_next_offset(d.tree, pack_entries_end)
             IN  IF a.res.kind # "Ok"
                 THEN [tree |-> a.tree,
                       res |-> Panic("BUG: pack now is smaller than all previously seen entries")]
                 ELSE a

\* set_pack_entries_end_and_resolve_ref_offsets without the call that closes
\* the last span.
set_pack_entries_end_without_closing(t, pack_entries_end) ==
    IF t.future_child_offsets # <<>>
    THEN DrainFutureChildOffsets([t EXCEPT !.future_child_offsets = <<>>],
                                 t.future_child_offsets)
    ELSE [tree |-> t, res |-> Ok]

\* set_pack_entries_end_and_resolve_ref_offsets that closes the last span
\* before it walks the worklist.
set_pack_entries_end_closing_first(t, pack_entries_end) ==
    LET a == assert_is_incrementing_and_update_next_offset(t, pack_entries_end)
    IN  IF a.res.kind # "Ok"
        THEN [tree |-> a.tree,
              res |-> Panic("BUG: pack now is smaller than all previously seen entries")]
        ELSE IF a.tree.future_child_offsets # <<>>
        THEN DrainFutureChildOffsets([a.tree EXCEPT !.future_child_offsets = <<>>],
                                     a.tree.future_child_offsets)
        ELSE a

\* set_pack_entries_end_and_resolve_ref_offsets with `?` in place of the
\* expect: the error of the offset check is returned.
set_pack_entries_end_returning_offset_error(t, pack_entries_end) ==
    LET d == IF t.future_child_offsets # <<>>
             THEN DrainFutureChildOffsets([t EXCEPT !.future_child_offsets = <<>>],
                                          t.future_child_offsets)
             ELSE [tree |-> t, res |-> Ok]
    IN  IF d.res.kind # "Ok" THEN d
        ELSE assert_is_incrementing_and_update_next_offset(d.tree, pack_entries_end)

\* Tree::set_pack_entries_end_and_resolve_ref_offsets
set_pack_entries_end_and_resolve_ref_offsets(t, pack_entries_end) ==
    LET d == IF t.future_child_offsets # <<>>
             THEN DrainFutureChildOffsets([t EXCEPT !.future_child_offsets = <<>>],
                                          t.future_child_offsets)
             ELSE [tree |-> t, res |-> Ok]
    IN  IF d.res.kind # "Ok" THEN d
        ELSE LET a == assert_is_incrementing_and_update_next_offset(d.tree, pack_entries_end)
             IN  IF a.res.kind # "Ok"
                 THEN [tree |-> a.tree,
                       res |-> Panic("BUG: pack now is smaller than all previously seen entries")]
                 ELSE a

\* ---------------------------------------------------------------- scenario
\* The call sequence of the concrete scenario.
ScenarioCalls ==
    <<[op |-> "add_root", offset |-> 12],
      [op |-> "add_child", base_offset |-> 12, offset |-> 40],
      [op |-> "add_child", base_offset |-> 40, offset |-> 90],
      [op |-> "finalize", pack_entries_end |-> 120]>>

\* Position in ScenarioCalls after call c; 0 - 1 once the calls made differ.
ScenarioAdvance(c) ==
    IF scenario_step >= 0 /\ scenario_step < Len(ScenarioCalls)
       /\ ScenarioCalls[scenario_step + 1] = c
    THEN scenario_step + 1
    ELSE 0 - 1

\* -------------------------------------------------------------- traversal
\* The result of a traversal that has not returned.
NoResult ==
    [returned |-> FALSE, success_count |-> 0, failures |-> {},
     interrupted |-> FALSE]

\* No traversal is under way.
TraversalIdle ==
    /\ corrupt = {}
    /\ queue = <<>>
    /\ in_flight = <<>>
    /\ should_interrupt = FALSE
    /\ started = <<>>
    /\ sink = <<>>
    /\ errors = {}
    /\ result = NoResult

\* No pair of hinted trees is being built.
HintIdle ==
    /\ hints = <<0, 0>>
    /\ hinted = <<>>
    /\ hinted_res = <<>>
    /\ capacity = <<>>

\* No PrepareCheckout exists.
CheckoutIdle ==
    /\ prep = [repo |-> "None"]
    /\ prep_alive = FALSE
    /\ bare = FALSE
    /\ dirs = {}
    /\ handed = 0
    /\ co_call = "none"
    /\ co_res = [kind |-> "None"]
    /\ attempts = 0
    /\ removals = <<>>
    /\ checked_out = FALSE

\* namespace::expand is not being called.
ExpandIdle ==
    /\ namespace = <<>>
    /\ expanded = [kind |-> "None"]

\* No array of items is being sized.
SizeIdle ==
    /\ target = [pointer |-> 8, u64_align |-> 8]
    /\ data_type = "()"
    /\ array_len = 0
    /\ array_bytes = 0

\* No Recorder exists.
RecorderIdle ==
    /\ location = "None"
    /\ path = <<>>
    /\ path_deque = <<>>
    /\ rec_call = "none"
    /\ rec_res = [kind |-> "None"]
    /\ prev_call = "none"

\* No narrow-index Tree exists.
NarrowIdle ==
    /\ index_bits = 0
    /\ narrow = [root_items |-> <<>>, child_items |-> <<>>, last_seen |-> "None",
                 future_child_offsets |-> <<>>]
    /\ narrow_call = "none"
    /\ narrow_res = [kind |-> "None"]

\* The other state machines of this module are not running.
AuxIdle ==
    HintIdle /\ CheckoutIdle /\ ExpandIdle /\ SizeIdle /\ RecorderIdle /\ NarrowIdle

\* ----------------------------------------------------------------- actions
Init ==
    /\ TraversalIdle
    /\ AuxIdle
    /\ root_items = with_capacity(0).root_items
    /\ child_items = with_capacity(0).child_items
    /\ last_seen = with_capacity(0).last_seen
    /\ future_child_offsets = with_capacity(0).future_child_offsets
    /\ call = [op |-> "with_capacity"]
    /\ res = Ok
    /\ declared_base = <<>>
    /\ order = <<>>
    /\ finalize_ran = FALSE
    /\ finalize_failed = FALSE
    /\ scenario_step = 0

\* A panic unwinds the caller: no further call is made on the tree.
Running == res.kind # "Panic"

\* Tree::num_items
num_items(t) == Len(t.root_items) + Len(t.child_items)

\* The callers stop adding at MaxItems items.
MayAdd == Running /\ num_items(Tree) < MaxItems

SetTree(t) ==
    /\ root_items' = t.root_items
    /\ child_items' = t.child_items
    /\ last_seen' = t.last_seen
    /\ future_child_offsets' = t.future_child_offsets

AddRoot(offset) ==
    LET r == add_root(Tree, offset)
        c == [op |-> "add_root", offset |-> offset]
    IN  /\ MayAdd
        /\ SetTree(r.tree)
        /\ call' = c
        /\ res' = r.res
        /\ order' = IF r.res.kind = "Ok"
                    THEN Append(order, <<"Root", Len(root_items)>>) ELSE order
        /\ scenario_step' = ScenarioAdvance(c)
        /\ UNCHANGED <<declared_base, finalize_ran, finalize_failed>>
        /\ UNCHANGED <<trav_vars, aux_vars>>

AddChild(base_offset, offset) ==
    LET r == add_child(Tree, base_offset, offset)
        c == [op |-> "add_child", base_offset |-> base_offset, offset |-> offset]
    IN  /\ MayAdd
        /\ SetTree(r.tree)
        /\ call' = [op |-> "add_child", offset |-> offset]
        /\ res' = r.res
        /\ order' = IF r.res.kind = "Ok"
                    THEN Append(order, <<"Child", Len(child_items)>>) ELSE order
        /\ declared_base' = IF r.res.kind = "Ok"
                            THEN Append(declared_base, base_offset) ELSE declared_base
        /\ scenario_step' = ScenarioAdvance(c)
        /\ UNCHANGED <<finalize_ran, finalize_failed>>
        /\ UNCHANGED <<trav_vars, aux_vars>>

Finalize(pack_entries_end) ==
    LET r == set_pack_entries_end_and_resolve_ref_offsets(Tree, pack_entries_end)
        c == [op |-> "finalize", pack_entries_end |-> pack_entries_end]
    IN  /\ Running
        /\ SetTree(r.tree)
        /\ call' = c
        /\ res' = r.res
        /\ finalize_ran' = TRUE
        /\ finalize_failed' = (finalize_failed \/ r.res.kind = "OutOfPackRefDelta")
        /\ scenario_step' = ScenarioAdvance(c)
        /\ UNCHANGED <<declared_base, order>>
        /\ UNCHANGED <<trav_vars, aux_vars>>

Next ==
    \/ \E offset \in Offsets : AddRoot(offset)
    \/ \E base_offset \in Offsets, offset \in Offsets : AddChild(base_offset, offset)
    \/ \E pack_entries_end \in Ends : Finalize(pack_entries_end)

Spec == Init /\ [][Next]_vars

\* ------------------------------------------------------ derived quantities
\* Valid indices into child_items.
ChildIndices == 0..(Len(child_items) - 1)

\* Every item of the graph, as <<kind, index>>.
ItemIds ==
    {<<"Root", i>> : i \in 0..(Len(root_items) - 1)}
        \cup {<<"Child", i>> : i \in ChildIndices}

ItemAt(id) ==
    IF id[1] = "Root" THEN root_items[id[2] + 1] ELSE child_items[id[2] + 1]

\* The item added by the most recent successful add_root / add_child.
LastAdded == ItemAt(order[Len(order)])

\* Positions of the children lists that hold child index i.
ParentSlots(i) ==
    {<<id, k>> \in ItemIds \X (1..MaxItems + 1) :
        k <= Len(ItemAt(id).children) /\ ItemAt(id).children[k] = i}

\* Positions of the worklist that hold child index i.
PendingSlots(i) ==
    {k \in 1..Len(future_child_offsets) : future_child_offsets[k][2] = i}

\* How often child index i occurs in the children lists and the worklist.
Occurrences(i) == Cardinality(ParentSlots(i)) + Cardinality(PendingSlots(i))

\* Offsets of the items present.
OffsetsPresent == {ItemAt(id).offset : id \in ItemIds}

FinalizeReturnedOk == call.op = "finalize" /\ res.kind = "Ok"

\* ------------------------------------------------------------------ claims

\* C1: an add_root / add_child call whose offset is less than or equal to the
\* offset of the most recently added item returns
\* InvariantIncreasingPackOffset carrying that item's offset and the rejected
\* offset, and leaves root_items, child_items (hence every next_offset and
\* children list), last_seen and future_child_offsets as they were.
C1_RejectsNonIncreasingOffset ==
    [][(/\ call'.op \in {"add_root", "add_child"}
        /\ order # <<>>
        /\ call'.offset <= LastAdded.offset)
       => /\ res' = InvariantIncreasingPackOffset(LastAdded.offset, call'.offset)
          /\ UNCHANGED tree_vars]_vars

\* C1 witness: an add_child with the offset of the last added item was
\* rejected on a tree that holds a root, a child and a pending reference.
C1_Witness ==
    /\ call.op = "add_child"
    /\ res.kind = "InvariantIncreasingPackOffset"
    /\ res.pack_offset = res.last_pack_offset
    /\ Len(root_items) > 0
    /\ Len(child_items) > 0
    /\ future_child_offsets # <<>>

C3_ExactlyOnceAlways ==
    \A i \in ChildIndices : Occurrences(i) = 1

\* C3 amended: each child index occurs at most once in the children lists
\* and the worklist together, and exactly once as long as no finalize call
\* returned OutOfPackRefDelta.
C3_OnceUnlessFinalizeFailed ==
    \A i \in ChildIndices :
        /\ Occurrences(i) <= 1
        /\ ~finalize_failed => Occurrences(i) = 1

\* C3 witness: one child is attached and another one is pending.
C3_Witness ==
    /\ ~finalize_ran
    /\ \E i, j \in ChildIndices :
          /\ Cardinality(ParentSlots(i)) = 1
          /\ Cardinality(PendingSlots(j)) = 1

\* C4: every index in a children list and every child_index in
\* future_child_offsets is less than child_items.len().
C4_IndicesInBounds ==
    /\ \A id \in ItemIds : \A k \in 1..Len(ItemAt(id).children) :
          ItemAt(id).children[k] \in ChildIndices
    /\ \A k \in 1..Len(future_child_offsets) :
          future_child_offsets[k][2] \in ChildIndices

\* C4 witness: the newest child index is stored in a children list while
\* another index is stored in the worklist.
C4_Witness ==
    /\ Len(child_items) >= 2
    /\ Cardinality(ParentSlots(Len(child_items) - 1)) = 1
    /\ future_child_offsets # <<>>

\* Items reachable from the set S of items by following children lists.
RECURSIVE ReachableFrom(_)
ReachableFrom(S) ==
    LET step == S \cup {<<"Child", ItemAt(id).children[k]>> :
                          <<id, k>> \in {<<id, k>> \in S \X (1..MaxItems + 1) :
                                            k <= Len(ItemAt(id).children)}}
    IN  IF step = S THEN S ELSE ReachableFrom(step)

RootIds == {id \in ItemIds : id[1] = "Root"}

\* C5: after a successful finalize (on a tree no finalize failed on before)
\* every child item is reachable from a root item by following children
\* lists, for every accepted call sequence.
C5_EveryChildReachableFromRoot ==
    (FinalizeReturnedOk /\ ~finalize_failed)
        => \A i \in ChildIndices : <<"Child", i>> \in ReachableFrom(RootIds)

\* Whether entry k of the worklist names a base that is not present.
Unresolved(k) == future_child_offsets[k][1] \notin OffsetsPresent

\* finalize returned OutOfPackRefDelta for the first unresolved entry of the
\* worklist it was called with.
ReportsFirstUnresolved ==
    \E k \in 1..Len(future_child_offsets) :
        /\ Unresolved(k)
        /\ \A j \in 1..(k - 1) : ~Unresolved(j)
        /\ res' = OutOfPackRefDelta(future_child_offsets[k][1])

C7_ConcreteScenario ==
    /\ scenario_step \in 1..Len(ScenarioCalls) => res = Ok
    /\ scenario_step = Len(ScenarioCalls)
          => /\ root_items =
                  <<[offset |-> 12, next_offset |-> 40, children |-> <<0>>]>>
             /\ child_items =
                  <<[offset |-> 40, next_offset |-> 90, children |-> <<1>>],
                    [offset |-> 90, next_offset |-> 120, children |-> <<>>]>>
             /\ future_child_offsets = <<>>

\* C7 witness: the four calls of the scenario were made.
C7_Witness ==
    /\ scenario_step = Len(ScenarioCalls)
    /\ call = ScenarioCalls[Len(ScenarioCalls)]

StrictlyAscending(items) ==
    \A i, j \in 1..Len(items) : i < j => items[i].offset < items[j].offset

\* The item a lookup by offset finds, searching children first (as the code
\* does) or roots first.
LookupChildrenFirst(key) ==
    LET c == binary_search_by_key(child_items, key)
        r == binary_search_by_key(root_items, key)
    IN  IF c.found THEN {<<"Child", c.i>>}
        ELSE IF r.found THEN {<<"Root", r.i>>} ELSE {}

LookupRootsFirst(key) ==
    LET c == binary_search_by_key(child_items, key)
        r == binary_search_by_key(root_items, key)
    IN  IF r.found THEN {<<"Root", r.i>>}
        ELSE IF c.found THEN {<<"Child", c.i>>} ELSE {}

\* C8: root_items and child_items are strictly ascending by offset and share
\* no offset, so a lookup by offset finds the one item that has the offset,
\* whichever array is searched first.
C8_OffsetsSortedAndUnique ==
    /\ StrictlyAscending(root_items)
    /\ StrictlyAscending(child_items)
    /\ \A a, b \in ItemIds : ItemAt(a).offset = ItemAt(b).offset => a = b
    /\ \A key \in Offsets :
          /\ LookupChildrenFirst(key) = {id \in ItemIds : ItemAt(id).offset = key}
          /\ LookupRootsFirst(key) = LookupChildrenFirst(key)

\* C8 witness: roots and children were added alternately.
C8_Witness ==
    /\ Len(order) = MaxItems
    /\ order[1][1] = "Child"
    /\ order[2][1] = "Root"
    /\ order[3][1] = "Child"

\* C9: before any finalize call, every item but the one added last has
\* next_offset equal to the offset of the item added right after it, root or
\* child, and the item added last has next_offset = 0.
C9_NextOffsetIsSuccessorOffset ==
    ~finalize_ran
        => /\ \A k \in 1..(Len(order) - 1) :
                 ItemAt(order[k]).next_offset = ItemAt(order[k + 1]).offset
           /\ order # <<>> => LastAdded.next_offset = 0

\* C9 witness: a child was added after a root after a child.
C9_Witness ==
    /\ ~finalize_ran
    /\ Len(order) >= 3
    /\ order[Len(order)][1] = "Child"
    /\ order[Len(order) - 1][1] = "Root"
    /\ order[Len(order) - 2][1] = "Child"
    /\ res.kind = "Ok"

\* C10: a successful finalize(pack_entries_end) on a non-empty tree leaves
\* the item added last with next_offset = pack_entries_end and every item
\* with offset < next_offset; on an empty tree finalize returns Ok for every
\* pack_entries_end and changes nothing.
C10_FinalizeClosesLastSpan ==
    [][call'.op = "finalize"
       => IF num_items(Tree) = 0
          THEN res' = Ok /\ UNCHANGED tree_vars
          ELSE res' = Ok
                  => /\ LastAdded'.next_offset = call'.pack_entries_end
                     /\ \A id \in ItemIds' :
                           ItemAt(id)'.offset < ItemAt(id)'.next_offset]_vars

\* C10 witness: finalize succeeded on a tree whose last item is a child that
\* follows a root, after it attached a pending reference.
C10_Witness ==
    /\ FinalizeReturnedOk
    /\ ~finalize_failed
    /\ Len(order) >= 2
    /\ order[Len(order)][1] = "Child"
    /\ order[Len(order) - 1][1] = "Root"
    /\ LastAdded.next_offset = call.pack_entries_end
    /\ \E i \in ChildIndices : declared_base[i + 1] > child_items[i + 1].offset

\* The items whose offset is `offset`.
ItemsAtOffset(offset) == {id \in ItemIds : ItemAt(id).offset = offset}

IsAdd(c) == c.op \in {"add_root", "add_child"}

\* C11: a successful add_child(base_offset, offset) with new index
\* k = old child_items.len() appends k to the children list of the item whose
\* offset is base_offset and leaves the worklist unchanged if such an item
\* exists; otherwise it appends (base_offset, k) to the worklist and changes
\* no children list.
C11_AddChildAttachesOrDefers ==
    [][(call'.op = "add_child" /\ res' = Ok)
       => LET k == Len(child_items)
              base_offset == declared_base'[k + 1]
          IN  /\ Len(child_items') = k + 1
              /\ child_items'[k + 1].children = <<>>
              /\ IF ItemsAtOffset(base_offset) # {}
                 THEN /\ future_child_offsets' = future_child_offsets
                      /\ \A id \in ItemIds :
                            ItemAt(id)'.children =
                                IF id \in ItemsAtOffset(base_offset)
                                THEN Append(ItemAt(id).children, k)
                                ELSE ItemAt(id).children
                 ELSE /\ future_child_offsets' =
                            Append(future_child_offsets, <<base_offset, k>>)
                      /\ \A id \in ItemIds :
                            ItemAt(id)'.children = ItemAt(id).children]_vars

\* C11 witness: add_child attached the new child to a child item while an
\* earlier child is deferred.
C11_Witness ==
    /\ call.op = "add_child"
    /\ res = Ok
    /\ future_child_offsets # <<>>
    /\ \E slot \in ParentSlots(Len(child_items) - 1) : slot[1][1] = "Child"

\* Attachment respects the declared base.
AttachedUnderDeclaredBase ==
    /\ \A i \in ChildIndices : \A slot \in ParentSlots(i) :
          ItemAt(slot[1]).offset = declared_base[i + 1]
    /\ \A k \in 1..Len(future_child_offsets) :
          future_child_offsets[k][1] = declared_base[future_child_offsets[k][2] + 1]

\* Every child added before the item that has its declared base offset is
\* listed under that item.
ForwardReferencesListed ==
    \A i \in ChildIndices : \A id \in ItemsAtOffset(declared_base[i + 1]) :
        ItemAt(id).offset > child_items[i + 1].offset
            => \E slot \in ParentSlots(i) : slot[1] = id

ReachableParentSlots(i) ==
    {slot \in ParentSlots(i) : slot[1] \in ReachableFrom(RootIds)}

\* C15: no child item is reachable from two different roots, and no item is
\* reachable from a root along two different paths.
C15_RootSubtreesDisjoint ==
    /\ \A r1, r2 \in RootIds :
          r1 # r2 => ReachableFrom({r1}) \cap ReachableFrom({r2}) = {}
    /\ \A i \in ChildIndices : Cardinality(ReachableParentSlots(i)) <= 1

\* C15 witness: of two roots one has a child that finalize attached.
C15_Witness ==
    /\ Len(root_items) = 2
    /\ Len(child_items) = 1
    /\ finalize_ran
    /\ \E slot \in ParentSlots(0) :
          /\ slot[1][1] = "Root"
          /\ ItemAt(slot[1]).offset > child_items[1].offset

\* ------------------------------------------------- graphs for the traversal
\* The offsets of the entries of a pack of TraverseItems entries.
PlanOffsets == {OffsetTable[n] : n \in 1..TraverseItems}

\* What the entry scanner finds at each entry, in pack order: 0 for a full
\* object, or the offset of the base of a delta.
Plans == [1..TraverseItems -> {0} \cup PlanOffsets]

\* The tree after the scanner fed the first n entries of the plan.
RECURSIVE FeedEntries(_, _)
FeedEntries(plan, n) ==
    IF n = 0 THEN [tree |-> with_capacity(TraverseItems), res |-> Ok]
    ELSE LET fed == FeedEntries(plan, n - 1)
         IN  IF fed.res.kind # "Ok" THEN fed
             ELSE IF plan[n] = 0
             THEN add_root(fed.tree, OffsetTable[n])
             ELSE add_child(fed.tree, plan[n], OffsetTable[n])

\* The end of the entries of a pack of TraverseItems entries.
PackEntriesEnd == OffsetTable[TraverseItems + 1]

\* One pass of the scanner over the pack, closed by finalize.
from_offsets_in_pack(plan) ==
    LET fed == FeedEntries(plan, TraverseItems)
    IN  IF fed.res.kind # "Ok" THEN fed
        ELSE set_pack_entries_end_and_resolve_ref_offsets(fed.tree, PackEntriesEnd)

\* The append order and the declared bases that go with a plan.
PlanOrder(plan) ==
    [n \in 1..TraverseItems |->
        IF plan[n] = 0
        THEN <<"Root", Cardinality({m \in 1..(n - 1) : plan[m] = 0})>>
        ELSE <<"Child", Cardinality({m \in 1..(n - 1) : plan[m] # 0})>>]

IsBase(b) == b # 0

PlanBases(plan) == SelectSeq([n \in 1..TraverseItems |-> plan[n]], IsBase)

\* ------------------------------------------------------- traversal engine
\* A unit of work: a node and the decoded buffer of its base, moved into the
\* task (empty for a root).
Task(id, base) == [node |-> id, base |-> base]

\* A worker without a task.
Idle == Task(<<"Idle", 0>>, <<>>)

Workers == DOMAIN in_flight

Busy(w) == in_flight[w] # Idle

\* The delta-application primitive, external to the graph: the decoded
\* bytes of an entry are a function of the decoded bytes of its base and of
\* the entry at `offset`.
ApplyDelta(base, offset) == Append(base, offset)

\* What the sink receives for a decoded item.
Emitted(id, bytes) ==
    [offset |-> ItemAt(id).offset,
     span_length |-> ItemAt(id).next_offset - ItemAt(id).offset,
     bytes |-> bytes]

\* The tasks for the children of item id, in the order of its children list.
ChildTasks(id, bytes) ==
    [k \in 1..Len(ItemAt(id).children) |->
        Task(<<"Child", ItemAt(id).children[k]>>, bytes)]

\* seq without its k-th element.
RemoveAt(seq, k) ==
    [j \in 1..(Len(seq) - 1) |-> IF j < k THEN seq[j] ELSE seq[j + 1]]

\* The driver takes the finalized (root_items, child_items) and queues the
\* roots for a pool of 1 to NumWorkers workers.
TraverseInit ==
    \E plan \in Plans :
        LET built == from_offsets_in_pack(plan)
        IN  /\ built.res = Ok
            /\ root_items = built.tree.root_items
            /\ child_items = built.tree.child_items
            /\ last_seen = built.tree.last_seen
            /\ future_child_offsets = built.tree.future_child_offsets
            /\ call = [op |-> "finalize", pack_entries_end |-> PackEntriesEnd]
            /\ res = Ok
            /\ declared_base = PlanBases(plan)
            /\ order = PlanOrder(plan)
            /\ finalize_ran = TRUE
            /\ finalize_failed = FALSE
            /\ scenario_step = 0 - 1
            /\ corrupt \in {S \in SUBSET ItemIds : Cardinality(S) <= MaxCorrupt}
            /\ queue = [i \in 1..Len(root_items) |-> Task(<<"Root", i - 1>>, <<>>)]
            /\ \E n \in 1..NumWorkers : in_flight = [w \in 1..n |-> Idle]
            /\ should_interrupt = FALSE
            /\ started = <<>>
            /\ sink = <<>>
            /\ errors = {}
            /\ result = NoResult
            /\ AuxIdle

\* StartDecode by a worker that does not poll the cancellation flag.
StartDecode_ignoring_flag(w, k) ==
    /\ ~result.returned
    /\ ~Busy(w)
    /\ k \in 1..Len(queue)
    /\ in_flight' = [in_flight EXCEPT ![w] = queue[k]]
    /\ queue' = RemoveAt(queue, k)
    /\ started' = Append(started, queue[k].node)
    /\ UNCHANGED <<corrupt, should_interrupt, sink, errors, result>>
    /\ UNCHANGED <<build_vars, aux_vars>>

\* An idle worker polls the cancellation flag and, if it is not set, takes a
\* ready task and starts to decode its node.
StartDecode(w, k) ==
    /\ ~result.returned
    /\ ~Busy(w)
    /\ ~should_interrupt
    /\ k \in 1..Len(queue)
    /\ in_flight' = [in_flight EXCEPT ![w] = queue[k]]
    /\ queue' = RemoveAt(queue, k)
    /\ started' = Append(started, queue[k].node)
    /\ UNCHANGED <<corrupt, should_interrupt, sink, errors, result>>
    /\ UNCHANGED <<build_vars, aux_vars>>

\* A worker finishes its node: a corrupt entry is reported with its offset
\* and its subtree is given up; otherwise the decoded bytes go to the sink
\* and the children become ready with these bytes as their base.
FinishDecode(w) ==
    /\ ~result.returned
    /\ Busy(w)
    /\ LET id == in_flight[w].node
           bytes == ApplyDelta(in_flight[w].base, ItemAt(id).offset)
       IN  IF id \in corrupt
           THEN /\ errors' = errors \cup {ItemAt(id).offset}
                /\ UNCHANGED <<sink, queue>>
           ELSE /\ sink' = Append(sink, Emitted(id, bytes))
                /\ queue' = queue \o ChildTasks(id, bytes)
                /\ UNCHANGED errors
    /\ in_flight' = [in_flight EXCEPT ![w] = Idle]
    /\ UNCHANGED <<corrupt, should_interrupt, started, result>>
    /\ UNCHANGED <<build_vars, aux_vars>>

\* The caller trips the cancellation flag.
Interrupt ==
    /\ ~result.returned
    /\ ~should_interrupt
    /\ should_interrupt' = TRUE
    /\ UNCHANGED <<corrupt, queue, in_flight, started, sink, errors, result>>
    /\ UNCHANGED <<build_vars, aux_vars>>

\* The driver returns once no node is in flight and nothing is left to
\* schedule: the queue is empty or the flag is set.
Return ==
    /\ ~result.returned
    /\ \A w \in Workers : ~Busy(w)
    /\ queue = <<>> \/ should_interrupt
    /\ result' = [returned |-> TRUE,
                  success_count |-> Len(sink),
                  failures |-> errors,
                  interrupted |-> should_interrupt]
    /\ UNCHANGED <<corrupt, queue, in_flight, should_interrupt, started, sink, errors>>
    /\ UNCHANGED <<build_vars, aux_vars>>

TraverseNext ==
    \/ \E w \in Workers : \E k \in 1..TraverseItems : StartDecode(w, k)
    \/ \E w \in Workers : FinishDecode(w)
    \/ Interrupt
    \/ Return

TraverseSpec == TraverseInit /\ [][TraverseNext]_vars

\* Workers make progress and the driver returns when it can.
TraverseFairSpec ==
    /\ TraverseSpec
    /\ \A w \in 1..NumWorkers : WF_vars(w \in Workers /\ FinishDecode(w))
    /\ WF_vars(Return)

\* ------------------------------------------------------- traversal claims
\* Every item a traversal graph can have.
AllIds == {"Root", "Child"} \X (0..TraverseItems)

\* The items that have the offset item id was declared to be based on.
DeclaredBaseItems(id) ==
    IF id[1] = "Root" THEN {} ELSE ItemsAtOffset(declared_base[id[2] + 1])

\* Positions of the sink that hold item id.
SinkPositions(id) ==
    {k \in 1..Len(sink) : sink[k].offset = ItemAt(id).offset}

\* The decode of item id has completed.
Decoded(id) == SinkPositions(id) # {}

\* C16: when the decode of an item B starts, the decode of the item A that B
\* was declared to be based on has completed.
C16_BaseDecodedBeforeDependent ==
    [][\A w \in Workers : \A id \in ItemIds :
          (~Busy(w) /\ in_flight'[w].node = id /\ id[1] = "Child")
              => \E base \in DeclaredBaseItems(id) : Decoded(base)]_vars

\* C16 witness: a delta whose base lies behind it in the pack was decoded by
\* a pool of two workers.
C16_Witness ==
    /\ Cardinality(Workers) = 2
    /\ \E k \in 1..Len(sink) :
          /\ Len(sink[k].bytes) >= 2
          /\ sink[k].bytes[Len(sink[k].bytes) - 1] > sink[k].offset

\* Items reachable from a root.
FromRoots == ReachableFrom(RootIds)

\* The nodes whose decode fails: corrupt items that a worker gets to, no item
\* between a root and them being corrupt.
FailingNodes ==
    {c \in corrupt \cap FromRoots :
        \A a \in FromRoots \cap corrupt : c \in ReachableFrom({a}) => a = c}

\* Item id is a failing node or lies in the subtree of one.
InFailedSubtree(id) == \E c \in FailingNodes : id \in ReachableFrom({c})

\* The property of C17 for the items of the set `scope`.
FailureIsSubtreeLocal(scope) ==
    /\ \A id \in scope : InFailedSubtree(id) => ~Decoded(id)
    /\ errors \subseteq {ItemAt(c).offset : c \in FailingNodes}
    /\ (result.returned /\ ~result.interrupted)
          => /\ result.failures = {ItemAt(c).offset : c \in FailingNodes}
             /\ result.failures # {}
                   => \A id \in scope :
                         ~InFailedSubtree(id)
                             => Cardinality(SinkPositions(id)) = 1

C17_FailureIsSubtreeLocalBelowRoots == FailureIsSubtreeLocal(FromRoots)

\* A root with a child failed to decode, and another root was decoded and
\* emitted.
C17_SiblingRootEmitted ==
    /\ result.returned
    /\ ~result.interrupted
    /\ Len(sink) = 1
    /\ \E c \in corrupt \cap RootIds :
          /\ Len(ItemAt(c).children) > 0
          /\ ItemAt(c).offset \in result.failures

\* C18: two workers never hold the same item, no item is decoded or handed
\* to the sink twice, and the base buffer a worker reads does not belong to
\* a node another worker is still decoding.
C18_NoItemProcessedTwice ==
    /\ \A w1, w2 \in Workers :
          (w1 # w2 /\ Busy(w1) /\ Busy(w2))
              => /\ in_flight[w1].node # in_flight[w2].node
                 /\ in_flight[w1].node[1] = "Child"
                       => \A slot \in ParentSlots(in_flight[w1].node[2]) :
                             slot[1] # in_flight[w2].node
    /\ \A id \in ItemIds :
          /\ Cardinality({k \in 1..Len(started) : started[k] = id}) <= 1
          /\ Cardinality(SinkPositions(id)) <= 1

\* C18 witness: two workers decode two children of the same root at once.
C18_Witness ==
    \E w1, w2 \in Workers : \E r \in RootIds :
        /\ w1 # w2
        /\ Busy(w1)
        /\ Busy(w2)
        /\ in_flight[w1].node[1] = "Child"
        /\ in_flight[w2].node[1] = "Child"
        /\ Len(ItemAt(r).children) = 2
        /\ Decoded(r)

Completed(id) == Decoded(id) \/ ItemAt(id).offset \in errors

\* C19: once the cancellation flag is set no worker starts a node, a node
\* in flight leaves its worker only by completing, and the traversal
\* returns, with every worker done, a result marked interrupted that
\* carries what was decoded and reported so far.
C19_InterruptStopsScheduling ==
    /\ [][should_interrupt
             => \A w \in Workers : ~Busy(w) => in_flight'[w] = Idle]_vars
    /\ [][\A w \in Workers : \A id \in ItemIds :
             (in_flight[w].node = id /\ in_flight'[w].node # id)
                 => Completed(id)']_vars
    /\ should_interrupt
          ~> /\ result.returned
             /\ result.interrupted
             /\ \A w \in Workers : ~Busy(w)
             /\ result.success_count = Len(sink)
             /\ result.failures = errors

\* C19 witness: an interrupted traversal returned with one item emitted and
\* tasks left in the queue.
C19_Witness ==
    /\ result.returned
    /\ result.interrupted
    /\ result.success_count = 1
    /\ queue # <<>>
    /\ Len(started) = 1

\* The bytes a single-threaded application of the deltas yields for item id,
\* resolving each base by the offset the entry declares; <<>> if the entry
\* or one of its bases cannot be decoded within `fuel` steps.
RECURSIVE LinearDecode(_, _)
LinearDecode(id, fuel) ==
    IF id \in corrupt \/ fuel = 0 THEN <<>>
    ELSE IF id[1] = "Root" THEN ApplyDelta(<<>>, ItemAt(id).offset)
    ELSE IF DeclaredBaseItems(id) = {} THEN <<>>
    ELSE LET base == LinearDecode(CHOOSE b \in DeclaredBaseItems(id) : TRUE, fuel - 1)
         IN  IF base = <<>> THEN <<>> ELSE ApplyDelta(base, ItemAt(id).offset)

\* What the single-threaded application emits.
LinearOutput ==
    {<<ItemAt(id).offset, LinearDecode(id, TraverseItems + 1)>> :
        id \in {i \in ItemIds : LinearDecode(i, TraverseItems + 1) # <<>>}}

\* C20: a traversal that returns without cancellation has emitted, once
\* each, the same (offset, decoded bytes) pairs as the single-threaded
\* application of the deltas, whatever the pool size and the interleaving.
C20_ParallelEqualsLinear ==
    (result.returned /\ ~result.interrupted)
        => /\ {<<sink[k].offset, sink[k].bytes>> : k \in 1..Len(sink)} = LinearOutput
           /\ Len(sink) = Cardinality(LinearOutput)

\* C20 witness: two workers emitted every item of a chain of deltas whose
\* last link is a forward reference, not in pack order.
C20_Witness ==
    /\ result.returned
    /\ ~result.interrupted
    /\ Cardinality(Workers) = 2
    /\ Len(sink) = TraverseItems
    /\ \E k \in 1..Len(sink) :
          /\ Len(sink[k].bytes) = TraverseItems
          /\ sink[k].bytes[TraverseItems - 1] > sink[k].offset

\* --------------------------------------------- two trees, two capacity hints
\* No tree is being built by the single-tree state machine.
BuildIdle ==
    /\ root_items = <<>>
    /\ child_items = <<>>
    /\ last_seen = "None"
    /\ future_child_offsets = <<>>
    /\ call = [op |-> "with_capacity"]
    /\ res = Ok
    /\ declared_base = <<>>
    /\ order = <<>>
    /\ finalize_ran = FALSE
    /\ finalize_failed = FALSE
    /\ scenario_step = 0

Hints == 0..MaxHint

HintOffsets == {OffsetTable[n] : n \in 1..(HintItems + 1)}

\* Vec::push on a vector of `len` items with room for `cap`: the capacity
\* stays if there is room and is at least doubled otherwise.
PushCapacity(len, cap) ==
    IF len < cap THEN cap
    ELSE IF 2 * cap > 4 THEN 2 * cap ELSE 4

\* The capacities of the two vectors of tree t after a call turned it into u.
GrownCapacity(cap, t, u) ==
    [root_items |-> IF Len(u.root_items) > Len(t.root_items)
                    THEN PushCapacity(Len(t.root_items), cap.root_items)
                    ELSE cap.root_items,
     child_items |-> IF Len(u.child_items) > Len(t.child_items)
                     THEN PushCapacity(Len(t.child_items), cap.child_items)
                     ELSE cap.child_items]

\* Two trees are created with two hints.
HintInit ==
    /\ BuildIdle
    /\ TraversalIdle
    /\ hints \in Hints \X Hints
    /\ hints[1] <= hints[2]
    /\ CheckoutIdle
    /\ ExpandIdle
    /\ SizeIdle
    /\ RecorderIdle
    /\ NarrowIdle
    /\ hinted = <<with_capacity(hints[1]), with_capacity(hints[2])>>
    /\ hinted_res = <<Ok, Ok>>
    /\ capacity = [k \in 1..2 |->
                     [root_items |-> exact_vec(hints[k] \div 2).capacity,
                      child_items |-> exact_vec(hints[k] \div 2).capacity]]

\* The same call is made on both trees.
HintApply(r1, r2) ==
    /\ hinted' = <<r1.tree, r2.tree>>
    /\ hinted_res' = <<r1.res, r2.res>>
    /\ capacity' = <<GrownCapacity(capacity[1], hinted[1], r1.tree),
                     GrownCapacity(capacity[2], hinted[2], r2.tree)>>
    /\ UNCHANGED hints
    /\ UNCHANGED <<build_vars, trav_vars, checkout_vars, expand_vars, size_vars,
                   recorder_vars, narrow_vars>>

HintRunning == \A k \in 1..2 : hinted_res[k].kind # "Panic"

HintMayAdd == HintRunning /\ \A k \in 1..2 : num_items(hinted[k]) < HintItems

HintAddRoot(offset) ==
    /\ HintMayAdd
    /\ HintApply(add_root(hinted[1], offset), add_root(hinted[2], offset))

HintAddChild(base_offset, offset) ==
    /\ HintMayAdd
    /\ HintApply(add_child(hinted[1], base_offset, offset),
                 add_child(hinted[2], base_offset, offset))

HintFinalize(pack_entries_end) ==
    /\ HintRunning
    /\ HintApply(set_pack_entries_end_and_resolve_ref_offsets(hinted[1], pack_entries_end),
                 set_pack_entries_end_and_resolve_ref_offsets(hinted[2], pack_entries_end))

HintNext ==
    \/ \E offset \in HintOffsets : HintAddRoot(offset)
    \/ \E base_offset \in HintOffsets, offset \in HintOffsets :
          HintAddChild(base_offset, offset)
    \/ \E pack_entries_end \in HintOffsets \cup {0} : HintFinalize(pack_entries_end)

HintSpec == HintInit /\ [][HintNext]_vars

C25_NoChildIndexTwice ==
    \A i \in ChildIndices :
        /\ Cardinality(ParentSlots(i)) <= 1
        /\ Cardinality(PendingSlots(i)) <= 1
        /\ ParentSlots(i) = {} \/ PendingSlots(i) = {}

\* C25 witness: finalize attached a forward reference to its base and then
\* failed on the next one, which it dropped.
C25_Witness ==
    /\ call.op = "finalize"
    /\ res.kind = "OutOfPackRefDelta"
    /\ \E i, j \in ChildIndices :
          /\ Cardinality(ParentSlots(i)) = 1
          /\ declared_base[i + 1] > child_items[i + 1].offset
          /\ Occurrences(j) = 0

\* Sequence s is a prefix of sequence t.
IsPrefix(s, t) == Len(s) <= Len(t) /\ SubSeq(t, 1, Len(s)) = s

\* C26: add_root changes neither the worklist nor a children list; add_child
\* only appends to the worklist and to children lists, so a pending forward
\* reference stays where it is, as it is, until finalize runs, also when an
\* item with the awaited base offset is added.
C26_AddsAreAppendOnly ==
    [][/\ call'.op = "add_root"
             => /\ future_child_offsets' = future_child_offsets
                /\ \A id \in ItemIds : ItemAt(id)'.children = ItemAt(id).children
       /\ call'.op = "add_child"
             => /\ IsPrefix(future_child_offsets, future_child_offsets')
                /\ \A id \in ItemIds :
                      IsPrefix(ItemAt(id).children, ItemAt(id)'.children)]_vars

\* C26 witness: the base a pending reference waits for was added as a root,
\* and the reference is still pending.
C26_Witness ==
    /\ call.op = "add_root"
    /\ res = Ok
    /\ \E k \in 1..Len(future_child_offsets) :
          future_child_offsets[k][1] = call.offset

\* Position of the first worklist entry whose base is not present; one past
\* the end of the worklist if every base is present.
FirstUnresolved ==
    CHOOSE k \in 1..(Len(future_child_offsets) + 1) :
        /\ k <= Len(future_child_offsets) => Unresolved(k)
        /\ \A j \in 1..(k - 1) : ~Unresolved(j)

\* Child index i is listed once, by an item at parent_offset.
AttachedUnder(i, parent_offset) ==
    /\ Cardinality(ParentSlots(i)) = 1
    /\ \A slot \in ParentSlots(i) : ItemAt(slot[1]).offset = parent_offset

\* No item changed its offset or its next_offset.
SpansUnchanged ==
    \A id \in ItemIds :
        /\ ItemAt(id)'.offset = ItemAt(id).offset
        /\ ItemAt(id)'.next_offset = ItemAt(id).next_offset

\* C27: a finalize that returns OutOfPackRefDelta leaves the worklist empty,
\* has attached the entries before the failing one to their bases, has
\* dropped the failing entry and the entries after it unattached, and has
\* not closed the span of the item added last.
C27_StateAfterOutOfPackRefDelta ==
    [][(call'.op = "finalize" /\ res'.kind = "OutOfPackRefDelta")
          => /\ future_child_offsets' = <<>>
             /\ \A k \in 1..Len(future_child_offsets) :
                   \A parent_offset \in Offsets, i \in ChildIndices :
                       future_child_offsets[k] = <<parent_offset, i>>
                           => IF k < FirstUnresolved
                              THEN AttachedUnder(i, parent_offset)'
                              ELSE ParentSlots(i)' = {}
             /\ SpansUnchanged]_vars

\* C27 witness: finalize attached the first of three pending references,
\* failed on the second and dropped the third; the last span is still open.
C27_Witness ==
    /\ call.op = "finalize"
    /\ res.kind = "OutOfPackRefDelta"
    /\ future_child_offsets = <<>>
    /\ Len(order) = 3
    /\ LastAdded.next_offset = 0
    /\ \E i \in ChildIndices : Cardinality(ParentSlots(i)) = 1
    /\ \E i \in ChildIndices :
          /\ Occurrences(i) = 0
          /\ declared_base[i + 1] # res.base_pack_offset

\* C28: finalize never returns InvariantIncreasingPackOffset: if every
\* pending base is present and pack_entries_end is not above the offset of
\* the item added last, it panics with the message of its expect, the
\* worklist having been moved into children lists and no span touched.
C28_FinalizePanicsOnSmallEnd ==
    [][call'.op = "finalize"
          => /\ res'.kind # "InvariantIncreasingPackOffset"
             /\ (/\ order # <<>>
                 /\ FirstUnresolved > Len(future_child_offsets)
                 /\ \A id \in ItemIds :
                       id = order[Len(order)]
                           => call'.pack_entries_end <= ItemAt(id).offset)
                   => /\ res' = Panic("BUG: pack now is smaller than all previously seen entries")
                      /\ future_child_offsets' = <<>>
                      /\ \A k \in 1..Len(future_child_offsets) :
                            \A parent_offset \in Offsets, i \in ChildIndices :
                                future_child_offsets[k] = <<parent_offset, i>>
                                    => AttachedUnder(i, parent_offset)'
                      /\ SpansUnchanged]_vars

\* C28 witness: finalize panicked after it had attached a forward reference.
C28_Witness ==
    /\ call.op = "finalize"
    /\ res.kind = "Panic"
    /\ future_child_offsets = <<>>
    /\ \E i \in ChildIndices :
          /\ declared_base[i + 1] > child_items[i + 1].offset
          /\ Cardinality(ParentSlots(i)) = 1

\* ------------------------------------------------------- PrepareCheckout
\* What the steps of main_worktree after the work_dir lookup can come to, in
\* the order of the code: two expects, five `?`, and success.
MainWorktreeOutcomes ==
    {"head points to an object", "downloaded from remote", "NoHeadTree",
     "IndexFromTree", "CheckoutOptions", "OpenArcOdb", "IndexCheckout",
     "WriteIndex", "Ok"}

MainWorktreePanics == {"head points to an object", "downloaded from remote"}

\* What std::fs::remove_dir_all can come to.
RemovalOutcomes == {"Ok", "Err"}

Err(variant) == [kind |-> "Err", variant |-> variant]

Returned(value) == [kind |-> "Ok", value |-> value]

\* Option::take on self.repo
take(self) == [self EXCEPT !.repo = "None"]

\* repo.work_dir().unwrap_or_else(|| repo.path()): the work directory holds
\* the git directory of a repository that has one.
DirToRemove(is_bare) == IF is_bare THEN "git_dir" ELSE "work_dir"

DirsUnder(dir) == IF dir = "work_dir" THEN {"work_dir", "git_dir"} ELSE {dir}

\* PrepareCheckout::main_worktree that returns a clone of the repository and
\* keeps its own.
main_worktree_keeping_repo(self, is_bare, outcome) ==
    IF self.repo = "None"
    THEN [self |-> self,
          res |-> Panic("still present as we never succeeded the worktree checkout yet")]
    ELSE IF is_bare THEN [self |-> self, res |-> Err("BareRepository")]
    ELSE IF outcome \in MainWorktreePanics
    THEN [self |-> self, res |-> Panic(outcome)]
    ELSE IF outcome # "Ok" THEN [self |-> self, res |-> Err(outcome)]
    ELSE [self |-> self, res |-> Returned("Repository")]

\* PrepareCheckout::main_worktree
main_worktree(self, is_bare, outcome) ==
    IF self.repo = "None"
    THEN [self |-> self,
          res |-> Panic("still present as we never succeeded the worktree checkout yet")]
    ELSE IF is_bare THEN [self |-> self, res |-> Err("BareRepository")]
    ELSE IF outcome \in MainWorktreePanics
    THEN [self |-> self, res |-> Panic(outcome)]
    ELSE IF outcome # "Ok" THEN [self |-> self, res |-> Err(outcome)]
    ELSE [self |-> take(self), res |-> Returned("Repository")]

\* PrepareCheckout::repo
repo(self) ==
    IF self.repo = "Some"
    THEN Returned("&Repository")
    ELSE Panic("present as checkout operation isn't complete")

\* PrepareCheckout::persist that clones the repository where the code takes it.
persist_without_take(self) ==
    IF self.repo = "Some"
    THEN [self |-> self, res |-> Returned("Repository")]
    ELSE [self |-> self, res |-> Panic("present and consumed once")]

\* PrepareCheckout::persist, up to the point where `self` goes out of scope.
persist(self) ==
    IF self.repo = "Some"
    THEN [self |-> take(self), res |-> Returned("Repository")]
    ELSE [self |-> self, res |-> Panic("present and consumed once")]

\* Drop::drop that removes the directory whether or not the repository is
\* still there.
drop_removing_always(self, is_bare, existing, removal) ==
    [self |-> take(self),
     removed |-> <<DirToRemove(is_bare)>>,
     dirs |-> IF removal = "Ok"
              THEN existing \ DirsUnder(DirToRemove(is_bare))
              ELSE existing]

\* <PrepareCheckout as Drop>::drop: the value after it, the directory
\* remove_dir_all was called on (if any), and the directories left; the
\* result of the removal is discarded by `.ok()`.
drop(self, is_bare, existing, removal) ==
    IF self.repo = "Some"
    THEN [self |-> take(self),
          removed |-> <<DirToRemove(is_bare)>>,
          dirs |-> IF removal = "Ok"
                   THEN existing \ DirsUnder(DirToRemove(is_bare))
                   ELSE existing]
    ELSE [self |-> self, removed |-> <<>>, dirs |-> existing]

\* A clone has created the repository and wrapped it for the checkout.
CheckoutInit ==
    /\ BuildIdle
    /\ TraversalIdle
    /\ HintIdle
    /\ ExpandIdle
    /\ SizeIdle
    /\ RecorderIdle
    /\ NarrowIdle
    /\ prep = [repo |-> "Some"]
    /\ prep_alive = TRUE
    /\ bare \in BOOLEAN
    /\ dirs = IF bare THEN {"git_dir"} ELSE {"work_dir", "git_dir"}
    /\ handed = 0
    /\ co_call = "new"
    /\ co_res = Returned("PrepareCheckout")
    /\ attempts = 0
    /\ removals = <<>>
    /\ checked_out = FALSE

\* A panic unwinds the caller, which can only drop the value.
CheckoutRunning == prep_alive /\ co_res.kind # "Panic"

CheckoutFrame ==
    UNCHANGED <<build_vars, trav_vars, hint_vars, expand_vars, size_vars,
                recorder_vars, narrow_vars>>

MainWorktree(outcome) ==
    LET r == main_worktree(prep, bare, outcome)
    IN  /\ CheckoutRunning
        /\ attempts < MaxAttempts
        /\ prep' = r.self
        /\ co_call' = "main_worktree"
        /\ co_res' = r.res
        /\ attempts' = attempts + 1
        /\ handed' = IF r.res.kind = "Ok" THEN handed + 1 ELSE handed
        /\ checked_out' = (checked_out \/ r.res.kind = "Ok")
        /\ UNCHANGED <<prep_alive, bare, dirs, removals>>
        /\ CheckoutFrame

Repo ==
    /\ CheckoutRunning
    /\ co_call' = "repo"
    /\ co_res' = repo(prep)
    /\ UNCHANGED <<prep, prep_alive, bare, dirs, handed, attempts, removals,
                   checked_out>>
    /\ CheckoutFrame

\* persist takes `self` by value: the value is dropped when persist returns
\* or unwinds.
Persist(name, removal) ==
    LET r == persist(prep)
        d == drop(r.self, bare, dirs, removal)
    IN  /\ CheckoutRunning
        /\ prep' = d.self
        /\ prep_alive' = FALSE
        /\ co_call' = name
        /\ co_res' = r.res
        /\ handed' = IF r.res.kind = "Ok" THEN handed + 1 ELSE handed
        /\ dirs' = d.dirs
        /\ removals' = removals \o d.removed
        /\ UNCHANGED <<bare, attempts, checked_out>>
        /\ CheckoutFrame

\* The owner lets the value go out of scope, or unwinds after a panic.
Drop(removal) ==
    LET d == drop(prep, bare, dirs, removal)
    IN  /\ prep_alive
        /\ prep' = d.self
        /\ prep_alive' = FALSE
        /\ co_call' = "drop"
        /\ co_res' = IF co_res.kind = "Panic" THEN co_res ELSE Returned("()")
        /\ dirs' = d.dirs
        /\ removals' = removals \o d.removed
        /\ UNCHANGED <<bare, handed, attempts, checked_out>>
        /\ CheckoutFrame

CheckoutNext ==
    \/ \E outcome \in MainWorktreeOutcomes : MainWorktree(outcome)
    \/ Repo
    \/ \E removal \in RemovalOutcomes : Persist("persist", removal)
    \/ \E removal \in RemovalOutcomes : Persist("from", removal)
    \/ \E removal \in RemovalOutcomes : Drop(removal)

CheckoutSpec == CheckoutInit /\ [][CheckoutNext]_vars

\* C22: a main_worktree call that returns Ok hands the repository to the
\* caller and leaves none behind, one that returns an error leaves the
\* repository held; once a call returned Ok, repo() and main_worktree panic;
\* until then repo() succeeds and persist() returns the repository.
C22_RepositoryHeldUntilCheckedOut ==
    [][/\ (co_call' = "main_worktree" /\ co_res'.kind = "Ok")
             => prep'.repo = "None" /\ handed' = handed + 1
       /\ (co_call' = "main_worktree" /\ co_res'.kind = "Err")
             => prep.repo = "Some" /\ prep'.repo = "Some" /\ handed' = handed
       /\ (checked_out /\ co_call' \in {"repo", "main_worktree"})
             => co_res'.kind = "Panic"
       /\ (~checked_out /\ co_call' = "repo")
             => co_res' = Returned("&Repository")
       /\ (~checked_out /\ co_call' = "persist")
             => co_res' = Returned("Repository") /\ handed' = handed + 1]_vars

\* C22 witness: main_worktree failed, then succeeded, then was called again
\* and panicked.
C22_Witness ==
    /\ checked_out
    /\ attempts = 3
    /\ handed = 1
    /\ co_call = "main_worktree"
    /\ co_res.kind = "Panic"

\* The step drops the PrepareCheckout value.
Dropping == prep_alive /\ ~prep_alive'

\* The value still holds the repository when it is dropped: persist has taken
\* it before its `self` is dropped.
HeldWhenDropped == co_call' = "drop" /\ prep.repo = "Some"

\* C29 as stated: dropping the value deletes the work directory (the
\* repository path of a bare repository) if and only if the repository is
\* still held at that moment.
C29_DropDeletesIffHeld ==
    [][Dropping
          => /\ HeldWhenDropped <=> DirToRemove(bare) \notin dirs'
             /\ ~HeldWhenDropped => dirs' = dirs]_vars

\* C29 amended: dropping the value calls remove_dir_all on the work directory
\* (the repository path of a bare repository) if and only if the repository
\* is still held at that moment, and ignores its failure: the directory is
\* gone if the removal succeeded and nothing is deleted if none was made.
C29_DropRemovesIffHeld ==
    [][Dropping
          => /\ IF HeldWhenDropped
                THEN removals' = Append(removals, DirToRemove(bare))
                ELSE removals' = removals
             /\ dirs' \in {dirs, dirs \ DirsUnder(DirToRemove(bare))}
             /\ ~HeldWhenDropped => dirs' = dirs]_vars

\* C29 witness: main_worktree failed on a bare repository and the value was
\* dropped, which removed the repository path.
C29_Witness ==
    /\ co_call = "drop"
    /\ bare
    /\ attempts = 1
    /\ removals = <<"git_dir">>
    /\ dirs = {}

\* ------------------------------------------------------ namespace::expand
\* Byte strings are sequences of one-byte strings.
NameBytes == {"a", "b", "/"}

RECURSIVE StringsUpTo(_)
StringsUpTo(n) ==
    IF n = 0 THEN {<<>>}
    ELSE LET shorter == StringsUpTo(n - 1)
         IN  shorter \cup {Append(str, byte) : str \in shorter, byte \in NameBytes}

\* "refs/namespaces/"
RefsNamespaces ==
    <<"r", "e", "f", "s", "/", "n", "a", "m", "e", "s", "p", "a", "c", "e", "s", "/">>

\* split_str(b"/"): the pieces between the separators, empty ones included.
RECURSIVE split_str(_)
split_str(str) ==
    IF \A k \in 1..Len(str) : str[k] # "/" THEN <<str>>
    ELSE LET at == CHOOSE k \in 1..Len(str) :
                       str[k] = "/" /\ \A j \in 1..(k - 1) : str[j] # "/"
         IN  <<SubSeq(str, 1, at - 1)>> \o split_str(SubSeq(str, at + 1, Len(str)))

\* namespace.try_into(): a partial reference name is not empty and none of
\* its components is.
try_into(name) ==
    IF name # <<>> /\ \A k \in 1..Len(split_str(name)) : split_str(name)[k] # <<>>
    THEN Returned(name)
    ELSE Err("refname")

\* The loop of expand over the first n components.
RECURSIVE ExpandComponents(_, _)
ExpandComponents(components, n) ==
    IF n = 0 THEN <<>>
    ELSE ExpandComponents(components, n - 1)
             \o RefsNamespaces \o components[n] \o <<"/">>

\* namespace::expand
expand(name) ==
    LET checked == try_into(name)
    IN  IF checked.kind # "Ok" THEN checked
        ELSE Returned(ExpandComponents(split_str(checked.value),
                                       Len(split_str(checked.value))))

ExpandInit ==
    /\ BuildIdle
    /\ TraversalIdle
    /\ HintIdle
    /\ CheckoutIdle
    /\ SizeIdle
    /\ RecorderIdle
    /\ NarrowIdle
    /\ namespace \in StringsUpTo(MaxNameLen)
    /\ expanded = [kind |-> "None"]

Expand ==
    /\ expanded' = expand(namespace)
    /\ UNCHANGED namespace
    /\ UNCHANGED <<build_vars, trav_vars, hint_vars, checkout_vars, size_vars,
                   recorder_vars, narrow_vars>>

ExpandNext == Expand

ExpandSpec == ExpandInit /\ [][ExpandNext]_vars

\* The per-component pieces of the first n components joined by "/".
RECURSIVE JoinedPieces(_, _)
JoinedPieces(components, n) ==
    IF n = 1 THEN RefsNamespaces \o components[1]
    ELSE JoinedPieces(components, n - 1) \o <<"/">> \o RefsNamespaces \o components[n]

\* C23: expand maps a namespace of components c1/.../cn to the pieces
\* "refs/namespaces/" ci, in order, joined by "/": expand("a") is
\* "refs/namespaces/a".
C23_ExpandJoinsPieces ==
    (expanded.kind = "Ok")
        => expanded.value = JoinedPieces(split_str(namespace), Len(split_str(namespace)))

\* What expand does return: every piece, the last one included, is followed
\* by "/".
C23_ExpandEndsPiecesWithSlash ==
    (expanded.kind = "Ok")
        => expanded.value
               = JoinedPieces(split_str(namespace), Len(split_str(namespace))) \o <<"/">>

\* expand was called on a namespace of two components.
C23_TwoComponentsExpanded ==
    /\ expanded.kind = "Ok"
    /\ Len(split_str(namespace)) = 2

\* ------------------------------------------------------------ size of Item
\* Build targets: bytes of a pointer and alignment of u64.
Targets ==
    {[pointer |-> 8, u64_align |-> 8],
     [pointer |-> 4, u64_align |-> 8],
     [pointer |-> 4, u64_align |-> 4]}

DataTypes == {"()", "EntryWithDefault"}

Field(size, align) == [size |-> size, align |-> align]

U64(t) == Field(8, t.u64_align)

\* Vec<u32>: pointer, capacity and length.
VecOf(t) == Field(3 * t.pointer, t.pointer)

RECURSIVE SumOfSizes(_)
SumOfSizes(fields) ==
    IF fields = <<>> THEN 0 ELSE Head(fields).size + SumOfSizes(Tail(fields))

RECURSIVE MaxAlign(_)
MaxAlign(fields) ==
    IF fields = <<>> THEN 1
    ELSE LET rest == MaxAlign(Tail(fields))
         IN  IF Head(fields).align > rest THEN Head(fields).align ELSE rest

RoundUp(n, align) == ((n + align - 1) \div align) * align

\* A struct as the compiler lays it out: fields ordered by falling
\* alignment, which leaves padding at the end only.
StructOf(fields) ==
    Field(RoundUp(SumOfSizes(fields), MaxAlign(fields)), MaxAlign(fields))

\* index::Entry: a 20 byte object id, the pack offset and an optional crc32.
IndexEntry(t) == StructOf(<<Field(20, 1), U64(t), Field(8, 4)>>)

\* tests::size::EntryWithDefault
EntryWithDefault(t) ==
    StructOf(<<IndexEntry(t), Field(1, 1), U64(t), U64(t), U64(t),
               Field(2, 2), Field(2, 2)>>)

DataOf(type, t) == IF type = "()" THEN Field(0, 1) ELSE EntryWithDefault(t)

\* Item<T> with one more u64 field, the offset of its base.
ItemOf_with_base_offset(type, t) ==
    StructOf(<<U64(t), U64(t), U64(t), DataOf(type, t), VecOf(t)>>)

\* Item<T>: offset, next_offset, data, children.
ItemOf(type, t) == StructOf(<<U64(t), U64(t), DataOf(type, t), VecOf(t)>>)

\* std::mem::size_of::<[Item<T>; n]>()
size_of_array(type, t, n) == n * ItemOf(type, t).size

\* The expected sizes of the two tests, for 7,500,000 items.
ItemsInTest == 7500000

Expected(type) == IF type = "()" THEN 300000000 ELSE 840000000

\* size_ok: the size is the expected one on 64 bit targets and not above it
\* on the others.
size_ok(actual, expected, t) ==
    IF t.pointer = 8 THEN actual = expected ELSE actual <= expected

SizeInit ==
    /\ BuildIdle
    /\ TraversalIdle
    /\ HintIdle
    /\ CheckoutIdle
    /\ ExpandIdle
    /\ RecorderIdle
    /\ NarrowIdle
    /\ target \in Targets
    /\ data_type \in DataTypes
    /\ array_len = 0
    /\ array_bytes = size_of_array(data_type, target, 0)

\* The array gets one more item.
GrowArray ==
    /\ array_len < MaxArrayLen
    /\ array_len' = array_len + 1
    /\ array_bytes' = size_of_array(data_type, target, array_len + 1)
    /\ UNCHANGED <<target, data_type>>
    /\ UNCHANGED <<build_vars, trav_vars, hint_vars, checkout_vars, expand_vars,
                   recorder_vars, narrow_vars>>

SizeNext == GrowArray

SizeSpec == SizeInit /\ [][SizeNext]_vars

ComponentBytes == {"a", "/"}

RECURSIVE ComponentsUpTo(_)
ComponentsUpTo(n) ==
    IF n = 0 THEN {<<>>}
    ELSE LET shorter == ComponentsUpTo(n - 1)
         IN  shorter \cup {Append(str, byte) : str \in shorter, byte \in ComponentBytes}

Components == ComponentsUpTo(MaxComponentLen)

Locations == {"None", "Path", "FileName"}

Recorder == [path |-> path, path_deque |-> path_deque, location |-> location]

\* self.path.rfind_byte(b'/'): position of the last b"/" of str, counted
\* from 0; -1 for None.
rfind_byte(str) ==
    IF \A k \in 1..Len(str) : str[k] # "/" THEN 0 - 1
    ELSE (CHOOSE k \in 1..Len(str) :
              str[k] = "/" /\ \A j \in (k + 1)..Len(str) : str[j] # "/") - 1

\* Recorder::pop_element cutting at the first b"/" of the path.
pop_element_at_first_slash(self) ==
    LET str == self.path
        pos == IF \A k \in 1..Len(str) : str[k] # "/" THEN 0 - 1
               ELSE (CHOOSE k \in 1..Len(str) :
                         str[k] = "/" /\ \A j \in 1..(k - 1) : str[j] # "/") - 1
    IN  IF pos >= 0
        THEN [self EXCEPT !.path = SubSeq(@, 1, pos)]
        ELSE [self EXCEPT !.path = <<>>]

\* Recorder::pop_element
pop_element(self) ==
    LET pos == rfind_byte(self.path)
    IN  IF pos >= 0
        THEN [self EXCEPT !.path = SubSeq(@, 1, pos)]
        ELSE [self EXCEPT !.path = <<>>]

\* Recorder::push_element
push_element(self, name) ==
    IF name = <<>> THEN self
    ELSE IF self.path # <<>>
    THEN [self EXCEPT !.path = (@ \o <<"/">>) \o name]
    ELSE [self EXCEPT !.path = @ \o name]

\* <Recorder as Visit>::push_path_component
push_path_component(self, component) ==
    IF self.location = "None" THEN self
    ELSE IF self.location = "Path" THEN push_element(self, component)
    ELSE [self EXCEPT !.path = component]

\* <Recorder as Visit>::pop_path_component
pop_path_component(self) ==
    IF self.location = "Path" THEN pop_element(self) ELSE self

\* <Recorder as Visit>::push_back_tracked_path_component
push_back_tracked_path_component(self, component) ==
    IF self.location = "None" THEN self
    ELSE IF self.location = "Path"
    THEN LET pushed == push_element(self, component)
         IN  [pushed EXCEPT !.path_deque = Append(@, pushed.path)]
    ELSE [self EXCEPT !.path = component]

\* pop_front_tracked_path_and_set_current taking the path enqueued last.
pop_front_tracked_path_taking_back(self) ==
    IF self.location # "Path" THEN [self |-> self, res |-> Ok]
    ELSE IF self.path_deque = <<>>
    THEN [self |-> self, res |-> Panic("every parent is set only once")]
    ELSE [self |-> [self EXCEPT
                       !.path = self.path_deque[Len(self.path_deque)],
                       !.path_deque = SubSeq(@, 1, Len(@) - 1)],
          res |-> Ok]

\* <Recorder as Visit>::pop_front_tracked_path_and_set_current
pop_front_tracked_path_and_set_current(self) ==
    IF self.location # "Path" THEN [self |-> self, res |-> Ok]
    ELSE IF self.path_deque = <<>>
    THEN [self |-> self, res |-> Panic("every parent is set only once")]
    ELSE [self |-> [self EXCEPT !.path = Head(self.path_deque),
                                !.path_deque = Tail(self.path_deque)],
          res |-> Ok]

\* Recorder::default() followed by track_location(location).
RecorderInit ==
    /\ BuildIdle
    /\ TraversalIdle
    /\ HintIdle
    /\ CheckoutIdle
    /\ ExpandIdle
    /\ SizeIdle
    /\ NarrowIdle
    /\ location \in Locations
    /\ path = <<>>
    /\ path_deque = <<>>
    /\ rec_call = "default"
    /\ rec_res = Ok
    /\ prev_call = "none"

RecorderRunning == rec_res.kind # "Panic"

RecorderStep(self, c, r) ==
    /\ RecorderRunning
    /\ Len(self.path) <= MaxPathLen
    /\ Len(self.path_deque) <= MaxDeque
    /\ path' = self.path
    /\ path_deque' = self.path_deque
    /\ rec_call' = c
    /\ rec_res' = r
    /\ prev_call' = rec_call
    /\ UNCHANGED location
    /\ UNCHANGED <<build_vars, trav_vars, hint_vars, checkout_vars, expand_vars,
                   size_vars, narrow_vars>>

PushPathComponent(component) ==
    RecorderStep(push_path_component(Recorder, component),
                 "push_path_component", Ok)

PopPathComponent ==
    RecorderStep(pop_path_component(Recorder), "pop_path_component", Ok)

PushBackTrackedPathComponent(component) ==
    RecorderStep(push_back_tracked_path_component(Recorder, component),
                 "push_back_tracked_path_component", Ok)

PopFrontTrackedPathAndSetCurrent ==
    LET r == pop_front_tracked_path_and_set_current(Recorder)
    IN  RecorderStep(r.self, "pop_front_tracked_path_and_set_current", r.res)

RecorderNext ==
    \/ \E component \in Components : PushPathComponent(component)
    \/ PopPathComponent
    \/ \E component \in Components : PushBackTrackedPathComponent(component)
    \/ PopFrontTrackedPathAndSetCurrent

RecorderSpec == RecorderInit /\ [][RecorderNext]_vars

NoSlash(component) == \A k \in 1..Len(component) : component[k] # "/"

\* C30 as stated: for a Recorder tracking Location::Path,
\* push_path_component(c) followed by pop_path_component() gives back the
\* current path, for every component c without "/", the empty one included.
C30_PushThenPopRestores ==
    location = "Path"
        => \A component \in Components :
               NoSlash(component)
                   => pop_path_component(push_path_component(Recorder, component)).path
                          = path

\* C30 amended: for a Recorder tracking Location::Path,
\* push_path_component(c) followed by pop_path_component() gives back the
\* current path for every component c that is not empty and has no "/"; an
\* empty component is not pushed, so that the pop removes the last component
\* of the current path.
C30_PushThenPopRestoresUnlessEmpty ==
    location = "Path"
        => /\ \A component \in Components \ {<<>>} :
                 NoSlash(component)
                     => pop_path_component(
                            push_path_component(Recorder, component)).path = path
           /\ pop_path_component(push_path_component(Recorder, <<>>))
                  = pop_element(Recorder)

\* C30 witness: a push_path_component call was followed by a
\* pop_path_component call that left a path of one component.
C30_Witness ==
    /\ location = "Path"
    /\ prev_call = "push_path_component"
    /\ rec_call = "pop_path_component"
    /\ path = <<"a">>

\* C31: for a Recorder tracking Location::Path every
\* push_back_tracked_path_component call appends a component to the path and
\* enqueues the resulting path, once; pop_front_tracked_path_and_set_current
\* takes the path enqueued first and makes it the current path, and panics
\* if no path is enqueued; with location None or FileName the queue stays
\* empty and pop_front_tracked_path_and_set_current leaves the path alone.
C31_TrackedPathsAreFifo ==
    [][/\ (location = "Path" /\ rec_call' = "push_back_tracked_path_component")
             => /\ path_deque' = Append(path_deque, path')
                /\ \E component \in Components :
                      path' = push_element(Recorder, component).path
       /\ (location = "Path"
              /\ rec_call' = "pop_front_tracked_path_and_set_current")
             => IF path_deque = <<>>
                THEN /\ rec_res' = Panic("every parent is set only once")
                     /\ UNCHANGED <<path, path_deque>>
                ELSE /\ rec_res' = Ok
                     /\ path' = Head(path_deque)
                     /\ path_deque' = Tail(path_deque)
       /\ location # "Path"
             => /\ path_deque = <<>>
                /\ path_deque' = <<>>
                /\ rec_res' = Ok
                /\ rec_call' = "pop_front_tracked_path_and_set_current"
                      => path' = path]_vars

\* C31 witness: of two paths enqueued one after the other, the first one was
\* made the current path and the second one is still enqueued.
C31_Witness ==
    /\ location = "Path"
    /\ prev_call = "push_back_tracked_path_component"
    /\ rec_call = "pop_front_tracked_path_and_set_current"
    /\ path = <<"a">>
    /\ path_deque = << <<"a", "/", "a">> >>


\* ------------------------------------------------- child indices of w bits
\* The builder with the stored child index w bits wide where the code has
\* u32, so that the cast wraps within a handful of children.

\* Largest index width explored.
NarrowBits == 1

IndexWidths == 0..NarrowBits

RECURSIVE Pow2(_)
Pow2(w) == IF w = 0 THEN 1 ELSE 2 * Pow2(w - 1)

\* Enough items for one child more than the widest index can number.
NarrowItems == Pow2(NarrowBits) + 1

NarrowOffsets == {OffsetTable[k] : k \in 1..NarrowItems}

\* `child_index as u32` clamping to the largest value of the target type.
AsUnsigned_saturating(i, w) ==
    IF i < Pow2(w) THEN i ELSE Pow2(w) - 1

\* `child_index as u32` with a target type of w bits: the index modulo 2^w.
AsUnsigned(i, w) == i % Pow2(w)

\* The base lookup of add_child and of finalize, storing w-bit indices.
AttachToBaseAtWidth(t, parent_offset, child_index, w) ==
    LET c == binary_search_by_key(t.child_items, parent_offset)
        r == binary_search_by_key(t.root_items, parent_offset)
    IN  IF c.found
        THEN [found |-> TRUE,
              tree |-> [t EXCEPT !.child_items =
                            PushChild(@, c.i, AsUnsigned(child_index, w))]]
        ELSE IF r.found
        THEN [found |-> TRUE,
              tree |-> [t EXCEPT !.root_items =
                            PushChild(@, r.i, AsUnsigned(child_index, w))]]
        ELSE [found |-> FALSE, tree |-> t]

\* Tree::add_child storing w-bit indices; the worklist keeps the usize.
add_child_at_width(t, base_offset, offset, w) ==
    LET a == assert_is_incrementing_and_update_next_offset(t, offset)
    IN  IF a.res.kind # "Ok" THEN a
        ELSE LET next_child_index == Len(a.tree.child_items)
                 b == AttachToBaseAtWidth(a.tree, base_offset, next_child_index, w)
                 linked == IF b.found THEN b.tree
                           ELSE [a.tree EXCEPT !.future_child_offsets =
                                     Append(@, <<base_offset, next_child_index>>)]
             IN  [tree |-> [linked EXCEPT !.last_seen = "Child",
                                          !.child_items = Append(@, Item(offset))],
                  res |-> Ok]

\* The loop over future_child_offsets.drain(..), storing w-bit indices.
RECURSIVE DrainFutureChildOffsetsAtWidth(_, _, _)
DrainFutureChildOffsetsAtWidth(t, pending, w) ==
    IF pending = <<>> THEN [tree |-> t, res |-> Ok]
    ELSE LET parent_offset == Head(pending)[1]
             child_index == Head(pending)[2]
             b == AttachToBaseAtWidth(t, parent_offset, child_index, w)
         IN  IF b.found
             THEN DrainFutureChildOffsetsAtWidth(b.tree, Tail(pending), w)
             ELSE [tree |-> t, res |-> OutOfPackRefDelta(parent_offset)]

\* Tree::set_pack_entries_end_and_resolve_ref_offsets storing w-bit indices.
set_pack_entries_end_at_width(t, pack_entries_end, w) ==
    LET d == IF t.future_child_offsets # <<>>
             THEN DrainFutureChildOffsetsAtWidth(
                      [t EXCEPT !.future_child_offsets = <<>>],
                      t.future_child_offsets, w)
             ELSE [tree |-> t, res |-> Ok]
    IN  IF d.res.kind # "Ok" THEN d
        ELSE LET a == assert_is_incrementing_and_update_next_offset(d.tree, pack_entries_end)
             IN  IF a.res.kind # "Ok"
                 THEN [tree |-> a.tree,
                       res |-> Panic("BUG: pack now is smaller than all previously seen entries")]
                 ELSE a

NarrowInit ==
    /\ BuildIdle
    /\ TraversalIdle
    /\ HintIdle
    /\ CheckoutIdle
    /\ ExpandIdle
    /\ SizeIdle
    /\ RecorderIdle
    /\ index_bits \in IndexWidths
    /\ narrow = with_capacity(0)
    /\ narrow_call = "with_capacity"
    /\ narrow_res = Ok

\* Number of items added to the narrow tree.
NarrowCount == Len(narrow.root_items) + Len(narrow.child_items)

\* A call returned: the tree it left, and its result.
NarrowReturn(name, r) ==
    /\ narrow' = r.tree
    /\ narrow_call' = name
    /\ narrow_res' = r.res
    /\ UNCHANGED index_bits
    /\ UNCHANGED <<build_vars, trav_vars, hint_vars, checkout_vars, expand_vars,
                   size_vars, recorder_vars>>

\* The caller adds the next pack entry as a root.
NarrowAddRoot ==
    /\ NarrowCount < NarrowItems
    /\ NarrowReturn("add_root", add_root(narrow, OffsetTable[NarrowCount + 1]))

\* The caller adds the next pack entry as a child of the entry at base_offset.
NarrowAddChild(base_offset) ==
    /\ NarrowCount < NarrowItems
    /\ NarrowReturn("add_child",
                    add_child_at_width(narrow, base_offset,
                                       OffsetTable[NarrowCount + 1], index_bits))

\* The caller finalizes, the pack ending behind its last entry.
NarrowFinalize ==
    NarrowReturn("set_pack_entries_end_and_resolve_ref_offsets",
                 set_pack_entries_end_at_width(narrow, OffsetTable[NarrowCount + 1],
                                               index_bits))

NarrowNext ==
    \/ NarrowAddRoot
    \/ \E base_offset \in NarrowOffsets : NarrowAddChild(base_offset)
    \/ NarrowFinalize

NarrowSpec == NarrowInit /\ [][NarrowNext]_vars


\* The places of a children list of t that hold the value v.
StoredPlaces(t, v) ==
    {s \in {"Root"} \X (1..Len(t.root_items)) \X (1..NarrowItems) :
        /\ s[3] <= Len(t.root_items[s[2]].children)
        /\ t.root_items[s[2]].children[s[3]] = v}
    \cup
    {s \in {"Child"} \X (1..Len(t.child_items)) \X (1..NarrowItems) :
        /\ s[3] <= Len(t.child_items[s[2]].children)
        /\ t.child_items[s[2]].children[s[3]] = v}

\* The worklist entries of t that hold the index v.
PendingEntries(t, v) ==
    {k \in 1..Len(t.future_child_offsets) : t.future_child_offsets[k][2] = v}

\* No two places, in the children lists or the worklist, hold the same index.
StoredUnique(t) ==
    \A v \in 0..NarrowItems :
        Cardinality(StoredPlaces(t, v)) + Cardinality(PendingEntries(t, v)) <= 1

\* Number of entries in the children lists of t.
AttachedCount(t) ==
    Cardinality(UNION {StoredPlaces(t, v) : v \in 0..NarrowItems})

\* The base at parent_offset is an item of t.
BasePresent(t, parent_offset) ==
    \/ binary_search_by_key(t.child_items, parent_offset).found
    \/ binary_search_by_key(t.root_items, parent_offset).found

\* Number of worklist entries of t that finalize attaches: those in front of
\* the first entry whose base is missing.
ResolvedPrefix(t) ==
    CHOOSE n \in 0..Len(t.future_child_offsets) :
        /\ \A k \in 1..n : BasePresent(t, t.future_child_offsets[k][1])
        /\ n < Len(t.future_child_offsets)
              => ~BasePresent(t, t.future_child_offsets[n + 1][1])

\* C32 as stated: in every state the stored indices are unique exactly when
\* the tree has at most 2^w children.
C32_UniqueIffWithinWidth ==
    StoredUnique(narrow) <=> Len(narrow.child_items) <= Pow2(index_bits)

\* C32: every push into a children list, by add_child or by finalize, stores
\* the child's position modulo 2^w, which is the position itself while it is
\* below 2^w; stored indices are unique while the tree has at most 2^w
\* children, and are not once more than 2^w indices sit in children lists.
C32_StoredIndexIsPositionModWidth ==
    /\ []((Len(narrow.child_items) <= Pow2(index_bits) => StoredUnique(narrow))
          /\ (AttachedCount(narrow) > Pow2(index_bits) => ~StoredUnique(narrow)))
    /\ [][/\ narrow_call' = "add_child"
             => LET position == Len(narrow.child_items)
                    stored == position % Pow2(index_bits)
                IN  /\ position < Pow2(index_bits) => stored = position
                    /\ \/ /\ \E base_offset \in NarrowOffsets :
                                narrow'.future_child_offsets =
                                    Append(narrow.future_child_offsets,
                                           <<base_offset, position>>)
                          /\ \A v \in 0..NarrowItems :
                                StoredPlaces(narrow', v) = StoredPlaces(narrow, v)
                       \/ /\ narrow'.future_child_offsets = narrow.future_child_offsets
                          /\ \A v \in 0..NarrowItems :
                                Cardinality(StoredPlaces(narrow', v)) =
                                    Cardinality(StoredPlaces(narrow, v))
                                    + (IF v = stored THEN 1 ELSE 0)
          /\ narrow_call' = "set_pack_entries_end_and_resolve_ref_offsets"
             => \A v \in 0..NarrowItems :
                   Cardinality(StoredPlaces(narrow', v)) =
                       Cardinality(StoredPlaces(narrow, v))
                       + Cardinality({k \in 1..ResolvedPrefix(narrow) :
                             narrow.future_child_offsets[k][2] % Pow2(index_bits) = v})
         ]_vars

\* With one-bit indices, finalize attached a third child and its stored index
\* is the one of the first child.
C32_Witness ==
    /\ index_bits = 1
    /\ narrow_call = "set_pack_entries_end_and_resolve_ref_offsets"
    /\ narrow_res = Ok
    /\ Len(narrow.child_items) = 3
    /\ Cardinality(StoredPlaces(narrow, 0)) = 2
    /\ Cardinality(StoredPlaces(narrow, 1)) = 1

====
